---- MODULE Spec2Model ----
(***************************************************************************)
(* Model of the two notebooks of WIL-DS-workshop:                          *)
(*   WIL_demo_TM.ipynb          check_formality_type                       *)
(*   WIL_demo_Terminology.ipynb TextPreprocessor, FrequencyAnalyzer,       *)
(*                              FrequencyDist                              *)
(* Characters of the terminology notebook are their ASCII codes, a string  *)
(* is a sequence of codes; the French surfaces of the formality function   *)
(* are TLA+ strings, lowercased through a table.                           *)
(***************************************************************************)
EXTENDS Integers, Sequences, FiniteSets, TLC

VARIABLES
    \* check_formality_type
    doc,             \* the tokens nlp(text) returned
    tok_i,           \* position of the for loop over doc (1-based, next token)
    plural_found,
    singular_found,
    verdict,         \* the returned string, "" while the call is running
    fpc,             \* "loop" | "resolve" | "done"
    \* TextPreprocessor.process_text
    text,            \* the argument, a sequence of character codes
    chunk_size,      \* self.chunk_size
    paragraphs,      \* split_paragraphs(text)
    para_i,          \* position of the for loop over paragraphs
    chunks,          \* the chunk texts handed to self.nlp, in order
    current_chunk,
    current_length,
    cpc,             \* "start" | "loop" | "done"
    \* FrequencyAnalyzer.get_pos_frequencies
    doc_chunks,      \* the argument: a list of annotated chunks
    chunk_i,         \* position of "for doc in doc_chunks"
    token_i,         \* position of "for token in doc"
    verbs,           \* the three Counters: <<key, count>> pairs in
    nouns,           \*   insertion order, as a dict keeps them
    adjectives,
    apc,             \* "loop" | "done"
    \* FrequencyDist
    counter,         \* self.counter: <<key, count>> pairs in insertion order
    sorted_items,    \* self._sorted_items
    query,           \* the last call made on the distribution
    result,          \* what that call returned
    dpc,             \* "new" | "built"
    raised,          \* the exception that call raised, "none" if it returned
    \* PhraseAnalyzer.get_noun_phrases
    np_docs,         \* the argument: per annotated chunk its noun_chunks
    np_doc_i,        \* position of "for doc in doc_chunks"
    np_span_i,       \* position of "for chunk in doc.noun_chunks"
    phrase,          \* the phrase built from the last span
    noun_phrases,    \* the Counter of phrases
    ppc              \* "loop" | "done"

fvars == <<doc, tok_i, plural_found, singular_found, verdict, fpc>>

cvars == <<text, chunk_size, paragraphs, para_i, chunks, current_chunk,
           current_length, cpc>>

avars == <<doc_chunks, chunk_i, token_i, verbs, nouns, adjectives, apc>>

dvars == <<counter, sorted_items, query, result, dpc, raised>>

pvars == <<np_docs, np_doc_i, np_span_i, phrase, noun_phrases, ppc>>

vars == <<fvars, cvars, avars, dvars, pvars>>

\* what the steps of each component leave alone
notFormality == <<cvars, avars, dvars, pvars>>
notChunker == <<fvars, avars, dvars, pvars>>
notAggregator == <<fvars, cvars, dvars, pvars>>
notDist == <<fvars, cvars, avars, pvars>>
notPhrases == <<fvars, cvars, avars, dvars>>

----------------------------------------------------------------------------
(* Bounds *)
MaxTokens == 3
MaxTextLen == 7
MaxChunkSize == 3
MaxChunks == 2
MaxAggTokens == 3
MaxCount == 2
MaxN == 4
MaxPhraseTokens == 4
MaxSpans == 2

----------------------------------------------------------------------------
(* check_formality_type (WIL_demo_TM.ipynb)                                *)

\* token.text.lower() on the surfaces the model draws from
Lower(s) ==
    CASE s = "Ton" -> "ton"
      [] OTHER     -> s

FormalPronouns == {"vous", "vôtre", "vôtres", "votre", "vos"}

InformalPronouns ==
    {"tu", "te", "t'", "toi", "tien", "tienne", "tiens", "tiennes",
     "ton", "ta", "tes"}

\* surfaces the annotation engine may hand over
Surfaces == {"votre", "Ton", "ceci"}

\* (pos_, morph.get("Person"), morph.get("Number")) combinations
Annotations ==
    { [pos |-> "VERB", person |-> <<"2">>, number |-> <<"Plur">>],
      [pos |-> "AUX",  person |-> <<"2">>, number |-> <<"Sing">>],
      [pos |-> "VERB", person |-> <<"2">>, number |-> <<"Plur", "Sing">>],
      [pos |-> "PRON", person |-> <<"2">>, number |-> <<"Plur">>],
      [pos |-> "DET",  person |-> <<>>,    number |-> <<>>] }

Tokens ==
    { [text |-> s, pos |-> a.pos, person |-> a.person, number |-> a.number] :
        s \in Surfaces, a \in Annotations }

Docs == UNION { [1..n -> Tokens] : n \in 0..MaxTokens }

\* the if / elif on the pronoun lists: <<plural, singular>> after the token
LexicalRule(token, pl, sg) ==
    LET text_lower == Lower(token.text) IN
    IF text_lower \in FormalPronouns THEN <<TRUE, sg>>
    ELSE IF text_lower \in InformalPronouns THEN <<pl, TRUE>>
    ELSE <<pl, sg>>

\* MorphRule testing the first Number value instead of the whole list
MorphRuleFirstValue(token, pl, sg) ==
    IF token.pos \in {"VERB", "AUX"}
    THEN IF token.person = <<"2">> /\ Len(token.number) > 0
         THEN IF token.number[1] = "Plur" THEN <<TRUE, sg>>
              ELSE IF token.number[1] = "Sing" THEN <<pl, TRUE>>
              ELSE <<pl, sg>>
         ELSE <<pl, sg>>
    ELSE <<pl, sg>>

\* the if on token.pos_ with the nested person / number tests
MorphRule(token, pl, sg) ==
    IF token.pos \in {"VERB", "AUX"}
    THEN IF token.person = <<"2">>
         THEN IF token.number = <<"Plur">> THEN <<TRUE, sg>>
              ELSE IF token.number = <<"Sing">> THEN <<pl, TRUE>>
              ELSE <<pl, sg>>
         ELSE <<pl, sg>>
    ELSE <<pl, sg>>

\* ResolveVerdict without the test for mixed evidence
ResolveVerdictNoMixed(pl, sg) ==
    IF pl THEN "Formal"
    ELSE IF sg THEN "Informal"
    ELSE "Not Applicable"

\* the final if / elif chain
ResolveVerdict(pl, sg) ==
    IF pl /\ sg THEN "Not Applicable"
    ELSE IF pl THEN "Formal"
    ELSE IF sg THEN "Informal"
    ELSE "Not Applicable"

\* the whole function on a token sequence d, from the flags <<pl, sg>>
RECURSIVE FormalityFold(_, _, _)
FormalityFold(d, pl, sg) ==
    IF d = <<>> THEN ResolveVerdict(pl, sg)
    ELSE LET lex == LexicalRule(Head(d), pl, sg)
             mor == MorphRule(Head(d), lex[1], lex[2])
         IN FormalityFold(Tail(d), mor[1], mor[2])

check_formality_type(d) == FormalityFold(d, FALSE, FALSE)

\* no call of check_formality_type is under way
FormalityIdle ==
    /\ doc = <<>>
    /\ tok_i = 1
    /\ plural_found = FALSE
    /\ singular_found = FALSE
    /\ verdict = ""
    /\ fpc = "idle"

\* no call of process_text is under way
ChunkerIdle ==
    /\ text = <<>>
    /\ chunk_size = 0
    /\ paragraphs = <<>>
    /\ para_i = 1
    /\ chunks = <<>>
    /\ current_chunk = <<>>
    /\ current_length = 0
    /\ cpc = "idle"

\* no call of get_pos_frequencies is under way
AggregatorIdle ==
    /\ doc_chunks = <<>>
    /\ chunk_i = 1
    /\ token_i = 1
    /\ verbs = <<>>
    /\ nouns = <<>>
    /\ adjectives = <<>>
    /\ apc = "idle"

\* no FrequencyDist is being looked at
DistIdle ==
    /\ counter = <<>>
    /\ sorted_items = <<>>
    /\ query = [op |-> "none"]
    /\ result = <<>>
    /\ dpc = "idle"
    /\ raised = "none"

\* no call of get_noun_phrases is under way
PhrasesIdle ==
    /\ np_docs = <<>>
    /\ np_doc_i = 1
    /\ np_span_i = 1
    /\ phrase = <<>>
    /\ noun_phrases = <<>>
    /\ ppc = "idle"

InitFormality ==
    /\ ChunkerIdle
    /\ AggregatorIdle
    /\ DistIdle
    /\ PhrasesIdle
    /\ doc \in Docs
    /\ tok_i = 1
    /\ plural_found = FALSE
    /\ singular_found = FALSE
    /\ verdict = ""
    /\ fpc = "loop"

\* one iteration of "for token in doc"
FormalityToken ==
    /\ fpc = "loop"
    /\ tok_i <= Len(doc)
    /\ LET token == doc[tok_i]
           lex   == LexicalRule(token, plural_found, singular_found)
           mor   == MorphRule(token, lex[1], lex[2])
       IN /\ plural_found' = mor[1]
          /\ singular_found' = mor[2]
    /\ tok_i' = tok_i + 1
    /\ UNCHANGED <<doc, verdict, fpc>>
    /\ UNCHANGED notFormality

\* the loop is exhausted
FormalityLoopEnd ==
    /\ fpc = "loop"
    /\ tok_i > Len(doc)
    /\ fpc' = "resolve"
    /\ UNCHANGED <<doc, tok_i, plural_found, singular_found, verdict>>
    /\ UNCHANGED notFormality

\* the return statement
FormalityReturn ==
    /\ fpc = "resolve"
    /\ verdict' = ResolveVerdict(plural_found, singular_found)
    /\ fpc' = "done"
    /\ UNCHANGED <<doc, tok_i, plural_found, singular_found>>
    /\ UNCHANGED notFormality

NextFormality ==
    \/ FormalityToken
    \/ FormalityLoopEnd
    \/ FormalityReturn

SpecFormality == InitFormality /\ [][NextFormality]_vars

----------------------------------------------------------------------------
(* Properties of check_formality_type *)

\* plural second-person evidence of one token, as the specification words it
PluralEvidence(t) ==
    \/ Lower(t.text) \in {"vous", "vôtre", "vôtres", "votre", "vos"}
    \/ /\ t.pos = "VERB" \/ t.pos = "AUX"
       /\ t.person = <<"2">>
       /\ t.number = <<"Plur">>

\* singular second-person evidence of one token
SingularEvidence(t) ==
    \/ Lower(t.text) \in {"tu", "te", "t'", "toi", "tien", "tienne", "tiens",
                          "tiennes", "ton", "ta", "tes"}
    \/ /\ t.pos = "VERB" \/ t.pos = "AUX"
       /\ t.person = <<"2">>
       /\ t.number = <<"Sing">>

AnyPlural(d) == \E k \in 1..Len(d) : PluralEvidence(d[k])
AnySingular(d) == \E k \in 1..Len(d) : SingularEvidence(d[k])

\* C1: a finished call has returned exactly one of the three verdicts, and
\* 'Not Applicable' whenever both kinds of evidence occur in the sequence
\* and whenever neither occurs (the empty sequence included).
C1_VerdictTotal ==
    fpc = "done" =>
        /\ verdict \in {"Formal", "Informal", "Not Applicable"}
        /\ (AnyPlural(doc) /\ AnySingular(doc)) => verdict = "Not Applicable"
        /\ (~AnyPlural(doc) /\ ~AnySingular(doc)) => verdict = "Not Applicable"

\* the 'ton' ... 'votre' segment of the test cell has been classified
C1_Witness ==
    /\ fpc = "done"
    /\ Len(doc) = 2
    /\ doc[1].text = "Ton" /\ doc[1].pos = "DET"
    /\ doc[2].text = "votre" /\ doc[2].pos = "DET"
    /\ verdict = "Not Applicable"

\* C2: 'Formal' exactly when some token gives plural evidence and none gives
\* singular evidence, 'Informal' in the mirrored case; every token is looked
\* at (no early exit: the loop position has passed the whole sequence), and
\* the function returns the same verdict on every reordering of the tokens.
C2_VerdictByEvidence ==
    fpc = "done" =>
        /\ tok_i = Len(doc) + 1
        /\ verdict = "Formal" <=> (AnyPlural(doc) /\ ~AnySingular(doc))
        /\ verdict = "Informal" <=> (AnySingular(doc) /\ ~AnyPlural(doc))
        /\ \A p \in Permutations(1..Len(doc)) :
              check_formality_type([k \in 1..Len(doc) |-> doc[p[k]]]) = verdict

\* a verb with Person 2 and Number Plur after a neutral first token decided
\* the verdict: the evidence came late and from the morphology alone
C2_Witness ==
    /\ fpc = "done"
    /\ Len(doc) = 3
    /\ ~PluralEvidence(doc[1]) /\ ~PluralEvidence(doc[2])
    /\ doc[3].text = "ceci" /\ doc[3].pos = "VERB"
    /\ verdict = "Formal"

----------------------------------------------------------------------------
(* TextPreprocessor (WIL_demo_Terminology.ipynb)                           *)

\* character codes
NL == 10
SP == 32
LetterA == 97

\* the characters texts are drawn from
Alphabet == {NL, SP, LetterA}

\* what \s matches and what str.strip() removes
IsSpace(c) == c \in {9, 10, 11, 12, 13, 32}

Texts == UNION { [1..n -> Alphabet] : n \in 0..MaxTextLen }

ChunkSizes == 1..MaxChunkSize

\* end of the match of \n\s*\n that starts at t[i] = \n: \s* is greedy, so
\* the match ends at the last \n of the whitespace run after i; 0: no match
MatchEnd(t, i) ==
    LET ends == { j \in (i + 1)..Len(t) :
                    /\ t[j] = NL
                    /\ \A k \in (i + 1)..(j - 1) : IsSpace(t[k]) }
    IN IF ends = {} THEN 0
       ELSE CHOOSE j \in ends : \A j2 \in ends : j2 <= j

\* re.split(r'\n\s*\n', t): leftmost matches, scanning at i, the current
\* piece starting at start
RECURSIVE ReSplit(_, _, _)
ReSplit(t, start, i) ==
    IF i > Len(t) THEN << SubSeq(t, start, Len(t)) >>
    ELSE IF t[i] = NL /\ MatchEnd(t, i) # 0
         THEN << SubSeq(t, start, i - 1) >>
              \o ReSplit(t, MatchEnd(t, i) + 1, MatchEnd(t, i) + 1)
         ELSE ReSplit(t, start, i + 1)

RECURSIVE LStrip(_)
LStrip(p) ==
    IF p # <<>> /\ IsSpace(Head(p)) THEN LStrip(Tail(p)) ELSE p

RECURSIVE RStrip(_)
RStrip(p) ==
    IF p # <<>> /\ IsSpace(p[Len(p)])
    THEN RStrip(SubSeq(p, 1, Len(p) - 1)) ELSE p

\* str.strip()
Strip(p) == RStrip(LStrip(p))

NonEmpty(p) == p # <<>>

\* [p.strip() for p in re.split(r'\n\s*\n', text) if p.strip()]
split_paragraphs(t) ==
    LET pieces == ReSplit(t, 1, 1)
    IN SelectSeq([k \in 1..Len(pieces) |-> Strip(pieces[k])], NonEmpty)

\* '\n\n'.join(ps)
RECURSIVE Join(_)
Join(ps) ==
    IF ps = <<>> THEN <<>>
    ELSE IF Len(ps) = 1 THEN ps[1]
    ELSE ps[1] \o <<NL, NL>> \o Join(Tail(ps))

InitChunker ==
    /\ FormalityIdle
    /\ AggregatorIdle
    /\ DistIdle
    /\ PhrasesIdle
    /\ text \in Texts
    /\ chunk_size \in ChunkSizes
    /\ paragraphs = <<>>
    /\ para_i = 1
    /\ chunks = <<>>
    /\ current_chunk = <<>>
    /\ current_length = 0
    /\ cpc = "start"

\* process_text up to the for loop
ProcessTextStart ==
    /\ cpc = "start"
    /\ paragraphs' = split_paragraphs(text)
    /\ chunks' = <<>>
    /\ current_chunk' = <<>>
    /\ current_length' = 0
    /\ para_i' = 1
    /\ cpc' = "loop"
    /\ UNCHANGED <<text, chunk_size>>
    /\ UNCHANGED notChunker

\* ChunkClose starting the next chunk empty: the paragraph is dropped
ChunkCloseDropsPara ==
    /\ cpc = "loop"
    /\ para_i <= Len(paragraphs)
    /\ LET para == paragraphs[para_i] IN
        /\ current_length + Len(para) > chunk_size
        /\ chunks' = Append(chunks, Join(current_chunk))
        /\ current_chunk' = <<>>
        /\ current_length' = 0
    /\ para_i' = para_i + 1
    /\ UNCHANGED <<text, chunk_size, paragraphs, cpc>>
    /\ UNCHANGED notChunker

\* an iteration that takes the if branch: the current chunk goes to nlp
\* and the paragraph starts the next one
ChunkClose ==
    /\ cpc = "loop"
    /\ para_i <= Len(paragraphs)
    /\ LET para == paragraphs[para_i] IN
        /\ current_length + Len(para) > chunk_size
        /\ chunks' = Append(chunks, Join(current_chunk))
        /\ current_chunk' = <<para>>
        /\ current_length' = Len(para)
    /\ para_i' = para_i + 1
    /\ UNCHANGED <<text, chunk_size, paragraphs, cpc>>
    /\ UNCHANGED notChunker

\* an iteration that takes the else branch
ChunkExtend ==
    /\ cpc = "loop"
    /\ para_i <= Len(paragraphs)
    /\ LET para == paragraphs[para_i] IN
        /\ ~(current_length + Len(para) > chunk_size)
        /\ current_chunk' = Append(current_chunk, para)
        /\ current_length' = current_length + Len(para)
    /\ para_i' = para_i + 1
    /\ UNCHANGED <<text, chunk_size, paragraphs, chunks, cpc>>
    /\ UNCHANGED notChunker

\* after the loop: "if current_chunk:" holds, the last chunk goes to nlp
ChunkFlushLast ==
    /\ cpc = "loop"
    /\ para_i > Len(paragraphs)
    /\ current_chunk # <<>>
    /\ chunks' = Append(chunks, Join(current_chunk))
    /\ cpc' = "done"
    /\ UNCHANGED <<text, chunk_size, paragraphs, para_i, current_chunk,
                   current_length>>
    /\ UNCHANGED notChunker

\* after the loop: current_chunk is empty, chunks is returned as it is
ChunkReturnEmpty ==
    /\ cpc = "loop"
    /\ para_i > Len(paragraphs)
    /\ current_chunk = <<>>
    /\ cpc' = "done"
    /\ UNCHANGED <<text, chunk_size, paragraphs, para_i, chunks,
                   current_chunk, current_length>>
    /\ UNCHANGED notChunker

NextChunker ==
    \/ ProcessTextStart
    \/ ChunkClose
    \/ ChunkExtend
    \/ ChunkFlushLast
    \/ ChunkReturnEmpty

SpecChunker == InitChunker /\ [][NextChunker]_vars

----------------------------------------------------------------------------
(* Properties of process_text *)

\* the concatenation of a sequence of sequences
RECURSIVE Flatten(_)
Flatten(ss) == IF ss = <<>> THEN <<>> ELSE Head(ss) \o Flatten(Tail(ss))

\* the paragraphs of each chunk text, chunk by chunk
ChunkParagraphs == [k \in 1..Len(chunks) |-> split_paragraphs(chunks[k])]

\* C3: every chunk text is at most chunk_size characters long unless the
\* chunk is a single paragraph that alone exceeds chunk_size.
C3_ChunkWithinSize ==
    cpc = "done" =>
        \A k \in 1..Len(chunks) :
            \/ Len(chunks[k]) <= chunk_size
            \/ Len(ChunkParagraphs[k]) = 1

\* C4: the paragraphs of all chunks, in chunk order, are the non-empty
\* trimmed paragraphs of the input in their original order.
C4_ParagraphsPreserved ==
    cpc = "done" => Flatten(ChunkParagraphs) = split_paragraphs(text)

\* three paragraphs went into two chunks, the first holding two of them
C4_Witness ==
    /\ cpc = "done"
    /\ Len(split_paragraphs(text)) = 3
    /\ Len(chunks) = 2
    /\ Len(ChunkParagraphs[1]) = 2

----------------------------------------------------------------------------
(* FrequencyAnalyzer (WIL_demo_Terminology.ipynb)                          *)

\* str.lower() on one character code and on a string
LowerChar(c) == IF c \in 65..90 THEN c + 32 ELSE c

StrLower(str) == [k \in 1..Len(str) |-> LowerChar(str[k])]

\* self.preprocessor.stop_words: the entry "be" of the English list
StopWords == { <<98, 101>> }

\* the annotated tokens a chunk is made of: surface text, lemma_, pos_,
\* is_stop, is_alpha
AggTokens ==
    { [text |-> <<97, 97, 97>>,  lemma |-> <<97>>,      pos |-> "NOUN",
       is_stop |-> FALSE, is_alpha |-> TRUE],
      [text |-> <<65, 97, 97>>,  lemma |-> <<65>>,      pos |-> "VERB",
       is_stop |-> FALSE, is_alpha |-> TRUE],
      [text |-> <<98, 98, 98>>,  lemma |-> <<98>>,      pos |-> "ADJ",
       is_stop |-> FALSE, is_alpha |-> TRUE],
      [text |-> <<97, 97, 97>>,  lemma |-> <<97>>,      pos |-> "AUX",
       is_stop |-> FALSE, is_alpha |-> TRUE],
      [text |-> <<97, 97, 97>>,  lemma |-> <<97>>,      pos |-> "NOUN",
       is_stop |-> TRUE,  is_alpha |-> TRUE],
      [text |-> <<97, 49, 97>>,  lemma |-> <<97>>,      pos |-> "NOUN",
       is_stop |-> FALSE, is_alpha |-> FALSE],
      [text |-> <<97, 97>>,      lemma |-> <<97>>,      pos |-> "NOUN",
       is_stop |-> FALSE, is_alpha |-> TRUE],
      [text |-> <<66, 101, 101>>, lemma |-> <<66, 101>>, pos |-> "VERB",
       is_stop |-> FALSE, is_alpha |-> TRUE] }

\* the tokens of a whole document, chunk boundaries forgotten
TokenSeqs == UNION { [1..n -> AggTokens] : n \in 0..MaxAggTokens }

\* the ways to end up to MaxChunks chunks within n tokens: b[j] is the
\* position of the last token of chunk j (a chunk may be empty)
CutPoints(n) ==
    UNION { { b \in [1..k -> 0..n] :
                /\ b[k] = n
                /\ \A j \in 1..(k - 1) : b[j] <= b[j + 1] } :
            k \in 1..MaxChunks }

\* the chunk list that cuts toks at the positions b
Cut(toks, b) ==
    [j \in 1..Len(b) |->
        SubSeq(toks, (IF j = 1 THEN 0 ELSE b[j - 1]) + 1, b[j])]

\* position of key in the Counter c, 0 when it is absent
KeyIndex(c, key) ==
    IF \E k \in 1..Len(c) : c[k][1] = key
    THEN CHOOSE k \in 1..Len(c) : c[k][1] = key
    ELSE 0

\* counter[key] += 1 overwriting the count instead of adding to it
CounterIncrOverwrite(c, key) ==
    IF KeyIndex(c, key) = 0 THEN Append(c, <<key, 1>>)
    ELSE [c EXCEPT ![KeyIndex(c, key)] = <<key, 1>>]

\* counter[key] += 1: an absent key reads as 0 and is inserted last
CounterIncr(c, key) ==
    IF KeyIndex(c, key) = 0 THEN Append(c, <<key, 1>>)
    ELSE [c EXCEPT ![KeyIndex(c, key)] = <<key, c[KeyIndex(c, key)][2] + 1>>]

\* the body of the loop counting AUX tokens as verbs
ProcessTokenAuxAsVerb(token, tabs) ==
    IF ~token.is_stop /\ token.is_alpha /\ Len(token.text) > 2
    THEN LET lemma == StrLower(token.lemma) IN
         IF lemma \notin StopWords
         THEN IF token.pos \in {"VERB", "AUX"}
              THEN <<CounterIncr(tabs[1], lemma), tabs[2], tabs[3]>>
              ELSE IF token.pos = "NOUN"
              THEN <<tabs[1], CounterIncr(tabs[2], lemma), tabs[3]>>
              ELSE IF token.pos = "ADJ"
              THEN <<tabs[1], tabs[2], CounterIncr(tabs[3], lemma)>>
              ELSE tabs
         ELSE tabs
    ELSE tabs

\* the body of the loop of _process_doc_tokens on one token;
\* tabs = <<verbs, nouns, adjectives>>
ProcessToken(token, tabs) ==
    IF ~token.is_stop /\ token.is_alpha /\ Len(token.text) > 2
    THEN LET lemma == StrLower(token.lemma) IN
         IF lemma \notin StopWords
         THEN IF token.pos = "VERB"
              THEN <<CounterIncr(tabs[1], lemma), tabs[2], tabs[3]>>
              ELSE IF token.pos = "NOUN"
              THEN <<tabs[1], CounterIncr(tabs[2], lemma), tabs[3]>>
              ELSE IF token.pos = "ADJ"
              THEN <<tabs[1], tabs[2], CounterIncr(tabs[3], lemma)>>
              ELSE tabs
         ELSE tabs
    ELSE tabs

\* _process_doc_tokens(doc, verbs, nouns, adjectives)
RECURSIVE ProcessDocTokens(_, _)
ProcessDocTokens(d, tabs) ==
    IF d = <<>> THEN tabs
    ELSE ProcessDocTokens(Tail(d), ProcessToken(Head(d), tabs))

\* the loop over the chunks of get_pos_frequencies
RECURSIVE ProcessChunks(_, _)
ProcessChunks(cs, tabs) ==
    IF cs = <<>> THEN tabs
    ELSE ProcessChunks(Tail(cs), ProcessDocTokens(Head(cs), tabs))

\* the three Counters get_pos_frequencies wraps for a list of chunks
get_pos_frequencies(cs) == ProcessChunks(cs, << <<>>, <<>>, <<>> >>)

\* doc_chunks is the list process_text returned (the isinstance test of
\* get_pos_frequencies holds); the three Counters start empty
InitAggregator ==
    /\ FormalityIdle
    /\ ChunkerIdle
    /\ DistIdle
    /\ PhrasesIdle
    /\ \/ doc_chunks = <<>>
       \/ \E toks \in TokenSeqs : \E b \in CutPoints(Len(toks)) :
             doc_chunks = Cut(toks, b)
    /\ chunk_i = 1
    /\ token_i = 1
    /\ verbs = <<>>
    /\ nouns = <<>>
    /\ adjectives = <<>>
    /\ apc = "loop"

\* one iteration of "for token in doc" of _process_doc_tokens
AggToken ==
    /\ apc = "loop"
    /\ chunk_i <= Len(doc_chunks)
    /\ token_i <= Len(doc_chunks[chunk_i])
    /\ LET tabs == ProcessToken(doc_chunks[chunk_i][token_i],
                                <<verbs, nouns, adjectives>>)
       IN /\ verbs' = tabs[1]
          /\ nouns' = tabs[2]
          /\ adjectives' = tabs[3]
    /\ token_i' = token_i + 1
    /\ UNCHANGED <<doc_chunks, chunk_i, apc>>
    /\ UNCHANGED notAggregator

\* _process_doc_tokens returns, the loop over doc_chunks moves on
AggNextDoc ==
    /\ apc = "loop"
    /\ chunk_i <= Len(doc_chunks)
    /\ token_i > Len(doc_chunks[chunk_i])
    /\ chunk_i' = chunk_i + 1
    /\ token_i' = 1
    /\ UNCHANGED <<doc_chunks, verbs, nouns, adjectives, apc>>
    /\ UNCHANGED notAggregator

\* the loop over doc_chunks is exhausted: the Counters are returned
AggReturn ==
    /\ apc = "loop"
    /\ chunk_i > Len(doc_chunks)
    /\ apc' = "done"
    /\ UNCHANGED <<doc_chunks, chunk_i, token_i, verbs, nouns, adjectives>>
    /\ UNCHANGED notAggregator

NextAggregator ==
    \/ AggToken
    \/ AggNextDoc
    \/ AggReturn

SpecAggregator == InitAggregator /\ [][NextAggregator]_vars

----------------------------------------------------------------------------
(* Properties of the aggregation *)

\* the keys of a Counter and the count of a key (0 when absent)
KeysOf(c) == { c[k][1] : k \in 1..Len(c) }
CountOf(c, key) == IF KeyIndex(c, key) = 0 THEN 0 ELSE c[KeyIndex(c, key)][2]

\* a Counter as its key-to-count mapping, insertion order forgotten
AsMap(c) == [key \in KeysOf(c) |-> CountOf(c, key)]

\* key-wise addition of two count tables
MergeCounts(a, b) ==
    [key \in KeysOf(a) \cup KeysOf(b) |-> CountOf(a, key) + CountOf(b, key)]

\* the chunks of cs at the positions of idx, in the order of cs
RECURSIVE Pick(_, _, _)
Pick(cs, idx, k) ==
    IF k > Len(cs) THEN <<>>
    ELSE IF k \in idx THEN <<cs[k]>> \o Pick(cs, idx, k + 1)
    ELSE Pick(cs, idx, k + 1)

\* C5: for every partition of the chunk sequence into two groups, adding
\* the tables of the two groups key-wise gives the tables of the whole
\* sequence, and so does aggregating the chunks in any other order.
C5_AggregationAssociative ==
    apc = "done" =>
        /\ \A idx \in SUBSET (1..Len(doc_chunks)) :
             LET one == get_pos_frequencies(Pick(doc_chunks, idx, 1))
                 two == get_pos_frequencies(
                            Pick(doc_chunks, (1..Len(doc_chunks)) \ idx, 1))
             IN /\ MergeCounts(one[1], two[1]) = AsMap(verbs)
                /\ MergeCounts(one[2], two[2]) = AsMap(nouns)
                /\ MergeCounts(one[3], two[3]) = AsMap(adjectives)
        /\ \A p \in Permutations(1..Len(doc_chunks)) :
             LET re == get_pos_frequencies(
                           [k \in 1..Len(doc_chunks) |-> doc_chunks[p[k]]])
             IN /\ AsMap(re[1]) = AsMap(verbs)
                /\ AsMap(re[2]) = AsMap(nouns)
                /\ AsMap(re[3]) = AsMap(adjectives)

\* two chunks that both count the noun "a" have been aggregated
C5_Witness ==
    /\ apc = "done"
    /\ Len(doc_chunks) = 2
    /\ Len(doc_chunks[1]) = 1 /\ Len(doc_chunks[2]) = 1
    /\ nouns = << <<(<<97>>), 2>> >>

\* the token the token loop is about to look at, if there is one
AtToken ==
    /\ apc = "loop"
    /\ chunk_i <= Len(doc_chunks)
    /\ token_i <= Len(doc_chunks[chunk_i])

\* the inclusion rule in the words of the specification
Qualifies(t) ==
    /\ ~t.is_stop
    /\ t.is_alpha
    /\ Len(t.text) > 2
    /\ StrLower(t.lemma) \notin StopWords
    /\ t.pos \in {"VERB", "NOUN", "ADJ"}

\* table b is table a with the count of key raised by exactly 1
RaisedByOne(a, b, key) ==
    /\ KeysOf(b) = KeysOf(a) \cup {key}
    /\ \A k2 \in KeysOf(b) :
         CountOf(b, k2) = CountOf(a, k2) + (IF k2 = key THEN 1 ELSE 0)

\* C6: a step of the token loop changes the tables iff the token passes
\* the inclusion rule and is VERB, NOUN or ADJ; then the count of its
\* lowercased lemma goes up by exactly 1 in the bucket of its tag and the
\* other two buckets stay; any other token leaves all three as they are.
C6_TokenEffect ==
    [][ AtToken =>
          LET t == doc_chunks[chunk_i][token_i]
              key == StrLower(t.lemma)
          IN /\ (<<verbs, nouns, adjectives>>' # <<verbs, nouns, adjectives>>)
                   <=> Qualifies(t)
             /\ (Qualifies(t) /\ t.pos = "VERB") =>
                   /\ RaisedByOne(verbs, verbs', key)
                   /\ nouns' = nouns /\ adjectives' = adjectives
             /\ (Qualifies(t) /\ t.pos = "NOUN") =>
                   /\ RaisedByOne(nouns, nouns', key)
                   /\ verbs' = verbs /\ adjectives' = adjectives
             /\ (Qualifies(t) /\ t.pos = "ADJ") =>
                   /\ RaisedByOne(adjectives, adjectives', key)
                   /\ verbs' = verbs /\ nouns' = nouns
      ]_vars

\* a verb with an uppercase lemma was counted under the lowercased lemma
\* and an AUX token with the same lemma was passed over
C6_Witness ==
    /\ apc = "done"
    /\ Len(doc_chunks) = 2
    /\ Len(doc_chunks[1]) = 1 /\ doc_chunks[1][1].pos = "VERB"
    /\ doc_chunks[1][1].lemma = <<65>>
    /\ Len(doc_chunks[2]) = 1 /\ doc_chunks[2][1].pos = "AUX"
    /\ verbs = << <<(<<97>>), 1>> >>
    /\ nouns = <<>>
    /\ adjectives = <<>>

----------------------------------------------------------------------------
(* FrequencyDist (WIL_demo_Terminology.ipynb)                              *)

\* an optional argument: <<>> is None (or left out), <<v>> is the value v
None == <<>>
Some(v) == <<v>>

\* the default of min_freq
MinFreqDefault == 1

\* the keys of the tables: "a", "ab", "b"
DistKeys == { <<97>>, <<97, 98>>, <<98>> }

\* the Counters a distribution may be built from: distinct keys in any
\* insertion order, every count at least 1
CounterTables ==
    UNION { { c \in [1..n -> DistKeys \X (1..MaxCount)] :
                \A i, j \in 1..n : i # j => c[i][1] # c[j][1] } :
            n \in 0..Cardinality(DistKeys) }

NArgs == {None} \cup { Some(v) : v \in 0..MaxN }
MinFreqArgs == {None} \cup { Some(v) : v \in (0 - 1)..(MaxCount + 1) }
RangeArgs == {None} \cup { Some(v) : v \in 0..(MaxCount + 1) }

\* str < str: lexicographic on the character codes
RECURSIVE StrLess(_, _)
StrLess(a, b) ==
    IF a = <<>> THEN b # <<>>
    ELSE IF b = <<>> THEN FALSE
    ELSE IF a[1] < b[1] THEN TRUE
    ELSE IF a[1] > b[1] THEN FALSE
    ELSE StrLess(Tail(a), Tail(b))

\* the sort key of __init__ without the key as tie-break: x[1] left out
RankKeyLessCountOnly(x, y) == (0 - x[2]) < (0 - y[2])

\* (-x[1], x[0]) < (-y[1], y[0]) on <<key, count>> items
RankKeyLess(x, y) ==
    \/ (0 - x[2]) < (0 - y[2])
    \/ (0 - x[2]) = (0 - y[2]) /\ StrLess(x[1], y[1])

\* x put into the sorted list s behind every item that is not greater
RECURSIVE InsertRanked(_, _)
InsertRanked(s, x) ==
    IF s = <<>> THEN <<x>>
    ELSE IF RankKeyLess(x, Head(s)) THEN <<x>> \o s
    ELSE <<Head(s)>> \o InsertRanked(Tail(s), x)

\* sorted(items, key=lambda x: (-x[1], x[0])): a stable sort
RECURSIVE SortedRanked(_)
SortedRanked(items) ==
    IF items = <<>> THEN <<>>
    ELSE InsertRanked(SortedRanked(SubSeq(items, 1, Len(items) - 1)),
                      items[Len(items)])

\* items[::-1]
Reverse(items) == [k \in 1..Len(items) |-> items[Len(items) + 1 - k]]

\* items[:n]
SliceTo(items, n) ==
    IF n >= 0
    THEN SubSeq(items, 1, IF n < Len(items) THEN n ELSE Len(items))
    ELSE SubSeq(items, 1, IF Len(items) + n > 0 THEN Len(items) + n ELSE 0)

most_common(items, n) ==
    IF n = None THEN items ELSE SliceTo(items, n[1])

\* least_common cutting the list before it is reversed
least_commonCutFirst(items, n, min_freq) ==
    LET AtLeast(x) == x[2] >= min_freq
        filtered == SelectSeq(items, AtLeast)
    IN IF n = None THEN Reverse(filtered)
       ELSE Reverse(SliceTo(filtered, n[1]))

\* least_common keeping only the counts above min_freq
least_commonStrict(items, n, min_freq) ==
    LET Above(x) == x[2] > min_freq
        filtered == SelectSeq(items, Above)
    IN IF n = None THEN Reverse(filtered)
       ELSE SliceTo(Reverse(filtered), n[1])

least_common(items, n, min_freq) ==
    LET AtLeast(x) == x[2] >= min_freq
        filtered == SelectSeq(items, AtLeast)
    IN IF n = None THEN Reverse(filtered)
       ELSE SliceTo(Reverse(filtered), n[1])

\* get_range with the end bound exclusive
get_rangeEndExclusive(items, start, end) ==
    LET InRange(x) == /\ (start = None \/ x[2] >= start[1])
                      /\ (end = None \/ x[2] < end[1])
    IN SelectSeq(items, InRange)

get_range(items, start, end) ==
    LET InRange(x) == /\ (start = None \/ x[2] >= start[1])
                      /\ (end = None \/ x[2] <= end[1])
    IN SelectSeq(items, InRange)

\* the default of n in get_longest
GetLongestDefault == 10

\* a key that no table holds: "c"
AbsentKey == <<99>>

\* get_longest comparing the length of the key alone
LongestKeyLessLengthOnly(x, y) == Len(x[1]) < Len(y[1])

\* (len(x[0]), x[1]) < (len(y[0]), y[1]) on <<key, count>> items
LongestKeyLess(x, y) ==
    \/ Len(x[1]) < Len(y[1])
    \/ Len(x[1]) = Len(y[1]) /\ x[2] < y[2]

\* x put into the descending list s behind every item that is not smaller
RECURSIVE InsertLongest(_, _)
InsertLongest(s, x) ==
    IF s = <<>> THEN <<x>>
    ELSE IF LongestKeyLess(Head(s), x) THEN <<x>> \o s
    ELSE <<Head(s)>> \o InsertLongest(Tail(s), x)

\* sorted(items, key=lambda x: (len(x[0]), x[1]), reverse=True): the sort
\* is stable, items with equal sort keys keep the order they came in
RECURSIVE SortedLongest(_)
SortedLongest(items) ==
    IF items = <<>> THEN <<>>
    ELSE InsertLongest(SortedLongest(SubSeq(items, 1, Len(items) - 1)),
                       items[Len(items)])

\* get_longest works on self.counter.items(), not on the ranking index
get_longest(items, n) == SliceTo(SortedLongest(items), n)

\* list(self.counter.values())
CounterValues(c) == [k \in 1..Len(c) |-> c[k][2]]

RECURSIVE SumSeq(_)
SumSeq(fs) == IF fs = <<>> THEN 0 ELSE Head(fs) + SumSeq(Tail(fs))

\* max(frequencies) and min(frequencies) of a non-empty list
MaxSeq(fs) == CHOOSE v \in { fs[k] : k \in 1..Len(fs) } :
                  \A k \in 1..Len(fs) : fs[k] <= v
MinSeq(fs) == CHOOSE v \in { fs[k] : k \in 1..Len(fs) } :
                  \A k \in 1..Len(fs) : v <= fs[k]

RECURSIVE InsertNumber(_, _)
InsertNumber(s, v) ==
    IF s = <<>> THEN <<v>>
    ELSE IF v < Head(s) THEN <<v>> \o s
    ELSE <<Head(s)>> \o InsertNumber(Tail(s), v)

RECURSIVE SortNumbers(_)
SortNumbers(fs) ==
    IF fs = <<>> THEN <<>> ELSE InsertNumber(SortNumbers(Tail(fs)), Head(fs))

\* np.median of a non-empty list, as the fraction num / den
MedianOf(fs) ==
    LET srt == SortNumbers(fs)
        n == Len(fs)
    IN IF n % 2 = 1
       THEN [num |-> srt[(n + 1) \div 2], den |-> 1]
       ELSE [num |-> srt[n \div 2] + srt[n \div 2 + 1], den |-> 2]

\* get_stats reporting the number of keys as the total
get_statsTotalIsLen(c) ==
    LET frequencies == CounterValues(c) IN
         [ total_occurrences |-> Len(frequencies),
           unique_words      |-> Len(c),
           mean_frequency    |-> [num |-> SumSeq(frequencies), den |-> Len(c)],
           median_frequency  |-> MedianOf(frequencies),
           max_frequency     |-> MaxSeq(frequencies),
           min_frequency     |-> MinSeq(frequencies) ]

\* what get_stats raises: on an empty list sum and len give 0, np.mean and
\* np.median give nan with a warning, and max(frequencies) raises
\* ValueError, so the dict is never built
get_statsRaises(c) ==
    IF CounterValues(c) = <<>> THEN "ValueError" ELSE "none"

\* the dict get_stats returns for a non-empty table (mean and median as
\* fractions)
get_stats(c) ==
    LET frequencies == CounterValues(c) IN
         [ total_occurrences |-> SumSeq(frequencies),
           unique_words      |-> Len(c),
           mean_frequency    |-> [num |-> SumSeq(frequencies), den |-> Len(c)],
           median_frequency  |-> MedianOf(frequencies),
           max_frequency     |-> MaxSeq(frequencies),
           min_frequency     |-> MinSeq(frequencies) ]

\* self.counter[key]: Counter.__missing__ answers 0 for an absent key
CounterGet(c, key) ==
    IF KeyIndex(c, key) = 0 THEN 0 ELSE c[KeyIndex(c, key)][2]

\* a lookup that stores the 0 it answers, as a defaultdict would
CounterAfterGetStoring(c, key) ==
    IF KeyIndex(c, key) = 0 THEN Append(c, <<key, 0>>) ELSE c

\* the Counter after self.counter[key]: the lookup stores nothing
CounterAfterGet(c, key) == c

InitDist ==
    /\ FormalityIdle
    /\ ChunkerIdle
    /\ AggregatorIdle
    /\ PhrasesIdle
    /\ counter \in CounterTables
    /\ sorted_items = <<>>
    /\ query = [op |-> "none"]
    /\ result = <<>>
    /\ dpc = "new"
    /\ raised = "none"

\* FrequencyDist.__init__
DistConstruct ==
    /\ dpc = "new"
    /\ sorted_items' = SortedRanked(counter)
    /\ dpc' = "built"
    /\ UNCHANGED <<counter, query, result, raised>>
    /\ UNCHANGED notDist

\* a call of most_common, with or without n
MostCommon ==
    /\ dpc = "built"
    /\ \E n \in NArgs :
         /\ query' = [op |-> "most_common", n |-> n]
         /\ result' = most_common(sorted_items, n)
    /\ raised' = "none"
    /\ UNCHANGED <<counter, sorted_items, dpc>>
    /\ UNCHANGED notDist

\* a call of least_common; min_freq left out takes its default
LeastCommon ==
    /\ dpc = "built"
    /\ \E n \in NArgs, mf \in MinFreqArgs :
         /\ query' = [op |-> "least_common", n |-> n, min_freq |-> mf]
         /\ result' = least_common(sorted_items, n,
                          IF mf = None THEN MinFreqDefault ELSE mf[1])
    /\ raised' = "none"
    /\ UNCHANGED <<counter, sorted_items, dpc>>
    /\ UNCHANGED notDist

\* a call of get_range
GetRange ==
    /\ dpc = "built"
    /\ \E start \in RangeArgs, end \in RangeArgs :
         /\ query' = [op |-> "get_range", start |-> start, end |-> end]
         /\ result' = get_range(sorted_items, start, end)
    /\ raised' = "none"
    /\ UNCHANGED <<counter, sorted_items, dpc>>
    /\ UNCHANGED notDist

\* a call of get_longest; n left out takes its default
GetLongest ==
    /\ dpc = "built"
    /\ \E n \in NArgs :
         /\ query' = [op |-> "get_longest", n |-> n]
         /\ result' = get_longest(counter,
                          IF n = None THEN GetLongestDefault ELSE n[1])
    /\ raised' = "none"
    /\ UNCHANGED <<counter, sorted_items, dpc>>
    /\ UNCHANGED notDist

\* a call of get_stats: the dict, or the exception that leaves the call
GetStats ==
    /\ dpc = "built"
    /\ query' = [op |-> "get_stats"]
    /\ raised' = get_statsRaises(counter)
    /\ result' = IF get_statsRaises(counter) = "none"
                 THEN get_stats(counter) ELSE <<>>
    /\ UNCHANGED <<counter, sorted_items, dpc>>
    /\ UNCHANGED notDist

\* dist[key], for a key of the table or an absent one
GetItem ==
    /\ dpc = "built"
    /\ \E key \in DistKeys \cup {AbsentKey} :
         /\ query' = [op |-> "getitem", key |-> key]
         /\ result' = CounterGet(counter, key)
         /\ counter' = CounterAfterGet(counter, key)
    /\ raised' = "none"
    /\ UNCHANGED <<sorted_items, dpc>>
    /\ UNCHANGED notDist

\* items(), keys() and values(): views of the Counter
DistViews ==
    /\ dpc = "built"
    /\ \/ /\ query' = [op |-> "items"]
          /\ result' = counter
       \/ /\ query' = [op |-> "keys"]
          /\ result' = [k \in 1..Len(counter) |-> counter[k][1]]
       \/ /\ query' = [op |-> "values"]
          /\ result' = CounterValues(counter)
    /\ raised' = "none"
    /\ UNCHANGED <<counter, sorted_items, dpc>>
    /\ UNCHANGED notDist

\* the numbers typed at the prompts of interactive_analysis
MenuInts == (0 - 1)..(MaxCount + 1)

\* interactive_analysis, "Least common words": the menu prints a message
\* and calls nothing when n <= 0 or min_freq < 0
MenuLeastCommon ==
    /\ dpc = "built"
    /\ \E n \in MenuInts, min_freq \in MenuInts :
         IF n <= 0 \/ min_freq < 0
         THEN /\ query' = [op |-> "menu_rejected", choice |-> "least_common",
                           a |-> n, b |-> min_freq]
              /\ result' = <<>>
         ELSE /\ query' = [op |-> "least_common", n |-> Some(n),
                           min_freq |-> Some(min_freq)]
              /\ result' = least_common(sorted_items, Some(n), min_freq)
    /\ raised' = "none"
    /\ UNCHANGED <<counter, sorted_items, dpc>>
    /\ UNCHANGED notDist

\* interactive_analysis, "Show words in frequency range": the menu prints
\* a message and calls nothing when start < 0 or end < start
MenuGetRange ==
    /\ dpc = "built"
    /\ \E start \in MenuInts, end \in MenuInts :
         IF start < 0 \/ end < start
         THEN /\ query' = [op |-> "menu_rejected", choice |-> "get_range",
                           a |-> start, b |-> end]
              /\ result' = <<>>
         ELSE /\ query' = [op |-> "get_range", start |-> Some(start),
                           end |-> Some(end)]
              /\ result' = get_range(sorted_items, Some(start), Some(end))
    /\ raised' = "none"
    /\ UNCHANGED <<counter, sorted_items, dpc>>
    /\ UNCHANGED notDist

NextDist ==
    \/ DistConstruct
    \/ MostCommon
    \/ LeastCommon
    \/ GetRange
    \/ GetLongest
    \/ GetStats
    \/ GetItem
    \/ DistViews
    \/ MenuLeastCommon
    \/ MenuGetRange

SpecDist == InitDist /\ [][NextDist]_vars

----------------------------------------------------------------------------
(* Properties of FrequencyDist *)

\* key a comes before key b in ascending (lexicographic) key order
LexBefore(a, b) ==
    \E i \in 1..Len(b) :
        /\ i - 1 <= Len(a)
        /\ \A j \in 1..(i - 1) : a[j] = b[j]
        /\ \/ i = Len(a) + 1
           \/ i <= Len(a) /\ a[i] < b[i]

\* the entries of the count table, as a set of <<key, count>> pairs
Entries == { counter[k] : k \in 1..Len(counter) }

\* ranking order: descending count, ascending key among equal counts
RankBefore(x, y) == x[2] > y[2] \/ (x[2] = y[2] /\ LexBefore(x[1], y[1]))

\* the reverse: ascending count, descending key among equal counts
ReverseRankBefore(x, y) ==
    x[2] < y[2] \/ (x[2] = y[2] /\ LexBefore(y[1], x[1]))

\* the entries of Q as the sequence that the order Before puts them in
OrderedBy(Q, Before(_, _)) ==
    [i \in 1..Cardinality(Q) |->
        CHOOSE x \in Q : Cardinality({ y \in Q : Before(y, x) }) = i - 1]

\* the first n entries of a sequence (all of it when it is shorter)
FirstN(items, n) == SubSeq(items, 1, IF n < Len(items) THEN n ELSE Len(items))

\* C7: the ranking index holds each key of the table exactly once with its
\* count, in descending count with ties in ascending key; most_common()
\* returns the whole index and most_common(n) its first n entries.
C7_RankingIndex ==
    dpc = "built" =>
        /\ Len(sorted_items) = Len(counter)
        /\ \A key \in KeysOf(counter) :
             \E i \in 1..Len(sorted_items) :
                /\ sorted_items[i] = <<key, CountOf(counter, key)>>
                /\ \A j \in 1..Len(sorted_items) :
                     sorted_items[j][1] = key => j = i
        /\ \A i, j \in 1..Len(sorted_items) :
             i < j => RankBefore(sorted_items[i], sorted_items[j])
        /\ query.op = "most_common" =>
             IF query.n = None THEN result = sorted_items
             ELSE result = FirstN(sorted_items, query.n[1])

\* most_common(2) on a table of three keys, two of which tie on the count
\* and were inserted in descending key order
C7_Witness ==
    /\ dpc = "built"
    /\ query.op = "most_common" /\ query.n = Some(2)
    /\ Len(counter) = 3
    /\ counter[1] = << <<98>>, 2 >>
    /\ counter[2] = << <<97>>, 2 >>
    /\ result = << << <<97>>, 2 >>, << <<98>>, 2 >> >>

\* the value of min_freq a call of least_common works with
MinFreqOf(q) == IF q.min_freq = None THEN 1 ELSE q.min_freq[1]

\* C8: least_common(n, min_freq) returns the entries with count at least
\* min_freq in ascending count, descending key among equal counts, cut to
\* the first n of that order; with n absent, all of them.
C8_LeastCommon ==
    (dpc = "built" /\ query.op = "least_common") =>
        LET Q == { x \in Entries : x[2] >= MinFreqOf(query) }
            all == OrderedBy(Q, ReverseRankBefore)
        IN IF query.n = None THEN result = all
           ELSE result = FirstN(all, query.n[1])

\* least_common(1, 2) on a table with one key below min_freq and two keys
\* tied above it: the greater key of the two is returned
C8_Witness ==
    /\ dpc = "built"
    /\ query.op = "least_common"
    /\ query.n = Some(1) /\ query.min_freq = Some(2)
    /\ Len(counter) = 3
    /\ CountOf(counter, <<97>>) = 2
    /\ CountOf(counter, <<97, 98>>) = 1
    /\ CountOf(counter, <<98>>) = 2
    /\ result = << << <<98>>, 2 >> >>

\* every key of the table occurs exactly once in the sequence items
EnumeratesEveryKeyOnce(items) ==
    /\ Len(items) = Len(counter)
    /\ \A key \in KeysOf(counter) :
         Cardinality({ i \in 1..Len(items) : items[i][1] = key }) = 1

\* C9: with n the table size and min_freq at its default, most_common(n)
\* and least_common(n) each enumerate every key exactly once and
\* least_common(n) is most_common(n) reversed.
C9_MostLeastMirror ==
    dpc = "built" =>
        /\ (query.op = "most_common" /\ query.n = Some(Len(counter))) =>
              /\ EnumeratesEveryKeyOnce(result)
              /\ least_common(sorted_items, query.n, MinFreqDefault)
                    = Reverse(result)
        /\ (/\ query.op = "least_common"
            /\ query.n = Some(Len(counter))
            /\ query.min_freq = None) =>
              /\ EnumeratesEveryKeyOnce(result)
              /\ result = Reverse(most_common(sorted_items, query.n))

\* least_common(3) with min_freq left out on a table of three keys with
\* counts 1, 1 and 2
C9_Witness ==
    /\ dpc = "built"
    /\ query.op = "least_common"
    /\ query.n = Some(3) /\ query.min_freq = None
    /\ Len(counter) = 3
    /\ CountOf(counter, <<97>>) = 1
    /\ CountOf(counter, <<98>>) = 1
    /\ Len(result) = 3
    /\ result[3][2] = 2

\* C10: get_range(start, end) returns the entries whose count lies in
\* [start, end], both bounds inclusive and an absent bound unbounded, in
\* ranking order; get_range(c, c) returns exactly the keys with count c.
C10_GetRange ==
    (dpc = "built" /\ query.op = "get_range") =>
        LET Q == { x \in Entries :
                     /\ (query.start = None \/ query.start[1] <= x[2])
                     /\ (query.end = None \/ x[2] <= query.end[1]) }
        IN /\ result = OrderedBy(Q, RankBefore)
           /\ (query.start # None /\ query.start = query.end) =>
                 { result[i][1] : i \in 1..Len(result) }
                   = { key \in KeysOf(counter) :
                         CountOf(counter, key) = query.start[1] }

\* get_range(2, 2) on a table with counts 1, 2 and 2 returned the two keys
\* whose count is 2, the end bound included
C10_Witness ==
    /\ dpc = "built"
    /\ query.op = "get_range"
    /\ query.start = Some(2) /\ query.end = Some(2)
    /\ Len(counter) = 3
    /\ CountOf(counter, <<97, 98>>) = 1
    /\ result = << << <<97>>, 2 >>, << <<98>>, 2 >> >>

\* x comes strictly before y in the order of get_longest: the longer key
\* first, the greater count first among keys of equal length
LongerFirst(x, y) ==
    Len(x[1]) > Len(y[1]) \/ (Len(x[1]) = Len(y[1]) /\ x[2] > y[2])

\* the value of n a call of get_longest works with
LongestNOf(q) == IF q.n = None THEN 10 ELSE q.n[1]

\* C11: get_longest(n) returns n entries of the table (all of them when it
\* holds fewer), no entry twice, in descending key length and descending
\* count among equal lengths, and no entry left out comes before one that
\* was returned.
C11_GetLongest ==
    (dpc = "built" /\ query.op = "get_longest") =>
        LET got == { result[i] : i \in 1..Len(result) } IN
        /\ Len(result) = (IF LongestNOf(query) < Len(counter)
                          THEN LongestNOf(query) ELSE Len(counter))
        /\ Cardinality(got) = Len(result)
        /\ got \subseteq Entries
        /\ \A i, j \in 1..Len(result) :
             i < j => ~LongerFirst(result[j], result[i])
        /\ \A x \in Entries \ got : \A y \in got : ~LongerFirst(x, y)

\* get_longest(2) on "a": 1, "b": 2, "ab": 1, inserted in that order
C11_Witness ==
    /\ dpc = "built"
    /\ query.op = "get_longest" /\ query.n = Some(2)
    /\ counter = << << <<97>>, 1 >>, << <<98>>, 2 >>, << <<97, 98>>, 1 >> >>
    /\ result = << << <<97, 98>>, 1 >>, << <<98>>, 2 >> >>

\* the sum of the counts of the keys in ks
RECURSIVE SumOfCounts(_)
SumOfCounts(ks) ==
    IF ks = {} THEN 0
    ELSE LET key == CHOOSE key \in ks : TRUE
         IN CountOf(counter, key) + SumOfCounts(ks \ {key})

\* C12: for a non-empty table get_stats returns total_occurrences equal to
\* the sum of all counts, unique_words equal to the number of keys, and
\* max_frequency / min_frequency equal to the largest / smallest count.
C12_StatsOfTable ==
    (dpc = "built" /\ query.op = "get_stats" /\ counter # <<>>) =>
        /\ raised = "none"
        /\ result.total_occurrences = SumOfCounts(KeysOf(counter))
        /\ result.unique_words = Cardinality(KeysOf(counter))
        /\ \E x \in Entries : x[2] = result.max_frequency
        /\ \A x \in Entries : x[2] <= result.max_frequency
        /\ \E x \in Entries : x[2] = result.min_frequency
        /\ \A x \in Entries : x[2] >= result.min_frequency

\* get_stats on a table of three keys with counts 2, 1 and 2
C12_Witness ==
    /\ dpc = "built"
    /\ query.op = "get_stats"
    /\ Len(counter) = 3
    /\ counter[1][2] = 2 /\ counter[2][2] = 1 /\ counter[3][2] = 2
    /\ raised = "none"
    /\ result.total_occurrences = 5
    /\ result.min_frequency = 1

\* C13: get_stats on a distribution built from an empty table reports the
\* EmptyDistribution outcome, not another error.
C13_EmptyStatsReported ==
    (dpc = "built" /\ query.op = "get_stats" /\ counter = <<>>) =>
        raised = "EmptyDistribution"

\* C14: get_range called with end < start and least_common called with a
\* negative min_freq report InvalidQueryBounds instead of returning a list.
C14_InvalidBoundsReported ==
    dpc = "built" =>
        /\ (/\ query.op = "get_range"
            /\ query.start # None /\ query.end # None
            /\ query.end[1] < query.start[1]) =>
              raised = "InvalidQueryBounds"
        /\ (/\ query.op = "least_common"
            /\ query.min_freq # None
            /\ query.min_freq[1] < 0) =>
              raised = "InvalidQueryBounds"

\* the count tables with the keys and counts of c, in every insertion order
Reorderings(c) ==
    { [i \in 1..Len(c) |-> c[p[i]]] : p \in Permutations(1..Len(c)) }

\* the answer a distribution built from the table c gives to the call q
AnswerOn(c, q) ==
    CASE q.op = "most_common" -> most_common(SortedRanked(c), q.n)
      [] q.op = "least_common" ->
           least_common(SortedRanked(c), q.n,
               IF q.min_freq = None THEN MinFreqDefault ELSE q.min_freq[1])
      [] q.op = "get_range" -> get_range(SortedRanked(c), q.start, q.end)
      [] q.op = "get_longest" ->
           get_longest(c, IF q.n = None THEN GetLongestDefault ELSE q.n[1])

\* C17: the answer of most_common, least_common, get_range and get_longest
\* is the same for every insertion order of the same keys and counts.
C17_OrderIrrelevant ==
    (/\ dpc = "built"
     /\ query.op \in {"most_common", "least_common", "get_range",
                      "get_longest"}) =>
        \A c \in Reorderings(counter) : AnswerOn(c, query) = result

\* C18: process_text holds at most one annotated chunk at any point: the
\* list of annotated chunks never grows with the number of chunks.
C18_AtMostOneAnnotated == Len(chunks) <= 1

\* the text holds nothing but whitespace
OnlyWhitespace(str) == \A i \in 1..Len(str) : IsSpace(str[i])

\* C19: no chunk handed to the annotation engine is empty, also when the
\* first paragraph alone exceeds chunk_size, and a text of whitespace alone
\* yields no chunk.
C19_NoEmptyChunk ==
    /\ \A k \in 1..Len(chunks) : chunks[k] # <<>>
    /\ (cpc = "done" /\ OnlyWhitespace(text)) => chunks = <<>>

----------------------------------------------------------------------------
(* PhraseAnalyzer.get_noun_phrases (WIL_demo_Terminology.ipynb)             *)

\* the tokens a noun chunk is made of: lemma_, is_stop, is_alpha. A lemma
\* is one word: it is not empty and holds no whitespace.
PhraseTokens ==
    { [lemma |-> <<97>>, is_stop |-> FALSE, is_alpha |-> TRUE],
      [lemma |-> <<66>>, is_stop |-> FALSE, is_alpha |-> TRUE],
      [lemma |-> <<97>>, is_stop |-> TRUE,  is_alpha |-> TRUE],
      [lemma |-> <<49>>, is_stop |-> FALSE, is_alpha |-> FALSE] }

PhraseTokenSeqs == UNION { [1..n -> PhraseTokens] : n \in 0..MaxPhraseTokens }

\* the ways to end up to MaxSpans noun chunks within n tokens: b[j] is the
\* position of the last token of span j
SpanCutPoints(n) ==
    UNION { { b \in [1..k -> 0..n] :
                /\ b[k] = n
                /\ \A j \in 1..(k - 1) : b[j] <= b[j + 1] } :
            k \in 1..MaxSpans }

\* ' '.join(words)
RECURSIVE JoinSpace(_)
JoinSpace(words) ==
    IF words = <<>> THEN <<>>
    ELSE IF Len(words) = 1 THEN words[1]
    ELSE words[1] \o <<SP>> \o JoinSpace(Tail(words))

\* str.split(): the maximal runs of non-whitespace characters; words are
\* the runs found so far and cur the run being read
RECURSIVE SplitFrom(_, _, _)
SplitFrom(str, words, cur) ==
    IF str = <<>>
    THEN IF cur = <<>> THEN words ELSE Append(words, cur)
    ELSE IF IsSpace(Head(str))
         THEN SplitFrom(Tail(str),
                        IF cur = <<>> THEN words ELSE Append(words, cur),
                        <<>>)
         ELSE SplitFrom(Tail(str), words, Append(cur, Head(str)))

SplitWords(str) == SplitFrom(str, <<>>, <<>>)

\* the phrase of a noun chunk: the lowercased lemmas of the tokens that are
\* alphabetic and no stop words, joined with one space
BuildPhrase(chunk) ==
    LET Kept(t) == ~t.is_stop /\ t.is_alpha
        kept == SelectSeq(chunk, Kept)
    IN JoinSpace([k \in 1..Len(kept) |-> StrLower(kept[k].lemma)])

\* the test of get_noun_phrases accepting every non-empty phrase
PhraseCountedOneWord(p) == p # <<>>

\* "if phrase and len(phrase.split()) > 1"
PhraseCounted(p) == p # <<>> /\ Len(SplitWords(p)) > 1

InitPhrases ==
    /\ FormalityIdle
    /\ ChunkerIdle
    /\ AggregatorIdle
    /\ DistIdle
    /\ \/ np_docs = <<>>
       \/ \E toks \in PhraseTokenSeqs : \E b \in SpanCutPoints(Len(toks)) :
            \E d \in 0..Len(b) :
               LET spans == Cut(toks, b)
               IN np_docs = << SubSeq(spans, 1, d),
                               SubSeq(spans, d + 1, Len(spans)) >>
    /\ np_doc_i = 1
    /\ np_span_i = 1
    /\ phrase = <<>>
    /\ noun_phrases = <<>>
    /\ ppc = "loop"

\* one iteration of "for chunk in doc.noun_chunks"
PhraseSpan ==
    /\ ppc = "loop"
    /\ np_doc_i <= Len(np_docs)
    /\ np_span_i <= Len(np_docs[np_doc_i])
    /\ LET built == BuildPhrase(np_docs[np_doc_i][np_span_i]) IN
         /\ phrase' = built
         /\ noun_phrases' = IF PhraseCounted(built)
                            THEN CounterIncr(noun_phrases, built)
                            ELSE noun_phrases
    /\ np_span_i' = np_span_i + 1
    /\ UNCHANGED <<np_docs, np_doc_i, ppc>>
    /\ UNCHANGED notPhrases

\* the inner loop ends: "for doc in doc_chunks" takes the next doc
PhraseNextDoc ==
    /\ ppc = "loop"
    /\ np_doc_i <= Len(np_docs)
    /\ np_span_i > Len(np_docs[np_doc_i])
    /\ np_doc_i' = np_doc_i + 1
    /\ np_span_i' = 1
    /\ UNCHANGED <<np_docs, phrase, noun_phrases, ppc>>
    /\ UNCHANGED notPhrases

\* the outer loop ends
PhraseReturn ==
    /\ ppc = "loop"
    /\ np_doc_i > Len(np_docs)
    /\ ppc' = "done"
    /\ UNCHANGED <<np_docs, np_doc_i, np_span_i, phrase, noun_phrases>>
    /\ UNCHANGED notPhrases

NextPhrases ==
    \/ PhraseSpan
    \/ PhraseNextDoc
    \/ PhraseReturn

SpecPhrases == InitPhrases /\ [][NextPhrases]_vars

----------------------------------------------------------------------------
(* Properties of get_noun_phrases *)

\* the loop of get_noun_phrases is at a noun chunk
AtSpan ==
    /\ ppc = "loop"
    /\ np_doc_i <= Len(np_docs)
    /\ np_span_i <= Len(np_docs[np_doc_i])

\* the positions of the tokens of a span that are alphabetic and no stop
\* words
Survivors(chunk) ==
    { i \in 1..Len(chunk) : chunk[i].is_alpha /\ ~chunk[i].is_stop }

\* the components of the phrase of a span: the lowercased lemmas of its
\* tokens at the positions in keep, from position i on, in span order
RECURSIVE ComponentsFrom(_, _, _)
ComponentsFrom(chunk, keep, i) ==
    IF i > Len(chunk) THEN <<>>
    ELSE (IF i \in keep THEN << StrLower(chunk[i].lemma) >> ELSE <<>>)
         \o ComponentsFrom(chunk, keep, i + 1)

\* str is the components of comps with one space between two of them
RECURSIVE SpellsOut(_, _)
SpellsOut(str, comps) ==
    IF comps = <<>> THEN str = <<>>
    ELSE LET w == Head(comps) IN
         /\ Len(str) >= Len(w)
         /\ SubSeq(str, 1, Len(w)) = w
         /\ IF Len(comps) = 1 THEN Len(str) = Len(w)
            ELSE /\ Len(str) > Len(w)
                 /\ str[Len(w) + 1] = 32
                 /\ SpellsOut(SubSeq(str, Len(w) + 2, Len(str)), Tail(comps))

\* the number of space-separated components of a key
ComponentCount(key) == Cardinality({ i \in 1..Len(key) : key[i] = 32 }) + 1

\* C15: at each noun chunk the phrase is the lowercased lemmas, in span
\* order, of exactly the tokens that are alphabetic and no stop words; its
\* count goes up by 1 iff at least 2 tokens survive, any other span leaves
\* the table as it is, and every key of the table has at least 2 components.
C15_PhraseEffect ==
    [][ AtSpan =>
          LET chunk == np_docs[np_doc_i][np_span_i]
              keep == Survivors(chunk)
          IN /\ SpellsOut(phrase', ComponentsFrom(chunk, keep, 1))
             /\ Cardinality(keep) >= 2 =>
                   RaisedByOne(noun_phrases, noun_phrases', phrase')
             /\ Cardinality(keep) < 2 => noun_phrases' = noun_phrases
             /\ \A key \in KeysOf(noun_phrases') : ComponentCount(key) >= 2
      ]_vars

\* a span of one surviving token, then "a B" counted as "a b" a second time
C15_Witness ==
    /\ ppc = "loop"
    /\ np_doc_i = 2 /\ np_span_i = 2
    /\ Len(np_docs[1]) = 1
    /\ Cardinality(Survivors(np_docs[1][1])) = 2
    /\ Len(np_docs[2][1]) = 2
    /\ np_docs[2][1][1].lemma = <<66>>
    /\ phrase = <<98, 32, 97>>
    /\ noun_phrases = << << <<98, 32, 97>>, 2 >> >>

----------------------------------------------------------------------------
(* TextAnalyzer.analyze followed by the queries of interactive_analysis     *)

\* get_pos_frequencies building a distribution while tokens are still
\* being folded into the tables
PosDistBuiltEarly ==
    /\ apc \in {"loop", "done"}
    /\ dpc = "idle"
    /\ \E table \in {verbs, nouns, adjectives} :
         /\ counter' = table
         /\ sorted_items' = SortedRanked(table)
    /\ dpc' = "built"
    /\ doc_chunks' = <<>>
    /\ chunk_i' = 1
    /\ token_i' = 1
    /\ verbs' = <<>>
    /\ nouns' = <<>>
    /\ adjectives' = <<>>
    /\ apc' = "idle"
    /\ UNCHANGED <<query, result, raised>>
    /\ UNCHANGED <<fvars, cvars, pvars>>

\* the return of get_pos_frequencies: each finished Counter becomes a
\* FrequencyDist, the locals of the call are gone, and the caller goes on
\* with one of the three distributions
PosDistBuilt ==
    /\ apc = "done"
    /\ dpc = "idle"
    /\ \E table \in {verbs, nouns, adjectives} :
         /\ counter' = table
         /\ sorted_items' = SortedRanked(table)
    /\ dpc' = "built"
    /\ doc_chunks' = <<>>
    /\ chunk_i' = 1
    /\ token_i' = 1
    /\ verbs' = <<>>
    /\ nouns' = <<>>
    /\ adjectives' = <<>>
    /\ apc' = "idle"
    /\ UNCHANGED <<query, result, raised>>
    /\ UNCHANGED <<fvars, cvars, pvars>>

\* the return of get_noun_phrases: FrequencyDist(noun_phrases)
PhraseDistBuilt ==
    /\ ppc = "done"
    /\ dpc = "idle"
    /\ counter' = noun_phrases
    /\ sorted_items' = SortedRanked(noun_phrases)
    /\ dpc' = "built"
    /\ np_docs' = <<>>
    /\ np_doc_i' = 1
    /\ np_span_i' = 1
    /\ phrase' = <<>>
    /\ noun_phrases' = <<>>
    /\ ppc' = "idle"
    /\ UNCHANGED <<query, result, raised>>
    /\ UNCHANGED <<fvars, cvars, avars>>

\* what is called on a built distribution
DistQuery ==
    \/ MostCommon
    \/ LeastCommon
    \/ GetRange
    \/ GetLongest
    \/ GetStats
    \/ GetItem
    \/ DistViews
    \/ MenuLeastCommon
    \/ MenuGetRange

InitAnalyze == InitAggregator \/ InitPhrases

NextAnalyze ==
    \/ NextAggregator
    \/ NextPhrases
    \/ PosDistBuilt
    \/ PhraseDistBuilt
    \/ DistQuery

SpecAnalyze == InitAnalyze /\ [][NextAnalyze]_vars

----------------------------------------------------------------------------
(* Properties of the count tables from aggregation to query *)

\* no key twice and no count below 1
WellFormedTable(c) ==
    /\ \A i, j \in 1..Len(c) : c[i][1] = c[j][1] => i = j
    /\ \A i \in 1..Len(c) : c[i][2] >= 1

\* C16: during aggregation and after any sequence of queries, a lookup of
\* an absent key included, every count table has unique keys and no count
\* below 1.
C16_TablesWellFormed ==
    /\ WellFormedTable(verbs)
    /\ WellFormedTable(nouns)
    /\ WellFormedTable(adjectives)
    /\ WellFormedTable(noun_phrases)
    /\ WellFormedTable(counter)

\* a lookup of the absent key "c" answered with 0 on a table that holds a
\* key twice counted
C16_Witness ==
    /\ dpc = "built"
    /\ query = [op |-> "getitem", key |-> AbsentKey]
    /\ result = 0
    /\ \E i \in 1..Len(counter) : counter[i][2] = 2

\* the index holds exactly the entries of the table c, in ranking order
IsRankingOf(idx, c) ==
    /\ Len(idx) = Len(c)
    /\ { idx[i] : i \in 1..Len(idx) } = { c[i] : i \in 1..Len(c) }
    /\ \A i, j \in 1..Len(idx) :
         i < j => \/ idx[i][2] > idx[j][2]
                  \/ idx[i][2] = idx[j][2] /\ LexBefore(idx[i][1], idx[j][1])

\* C20: a distribution is built only from a table whose loop over the
\* chunks has ended; once built, no step changes the count table or the
\* ranking index, and the index holds the table's entries in ranking order.
C20_BuildThenFreeze ==
    [][ /\ (dpc # "built" /\ dpc' = "built") =>
              \/ /\ apc = "done" /\ chunk_i > Len(doc_chunks)
                 /\ counter' \in {verbs, nouns, adjectives}
              \/ /\ ppc = "done" /\ np_doc_i > Len(np_docs)
                 /\ counter' = noun_phrases
        /\ dpc = "built" =>
              /\ dpc' = "built"
              /\ counter' = counter
              /\ sorted_items' = sorted_items
        /\ dpc' = "built" => IsRankingOf(sorted_items', counter')
      ]_vars

\* get_stats answered on a distribution of two keys that analyze built
C20_Witness ==
    /\ dpc = "built"
    /\ apc = "idle" /\ ppc = "idle"
    /\ Len(counter) = 2
    /\ query.op = "get_stats"
    /\ result.unique_words = 2
    /\ IsRankingOf(sorted_items, counter)

====
